---------------------------- MODULE Spec2Model ----------------------------
(***************************************************************************)
(* Model of backend/websockets_time.py: the process-wide TimeFlowManager   *)
(* (virtual clock + connection hub, with its broadcast), the WebSocket     *)
(* command handler and its error paths, the one-shot HTTP operations, and  *)
(* the AsteroidSimulator methods as far as their failures go.              *)
(*                                                                         *)
(* Time.  time.time() is the variable `now`, a non-decreasing integer      *)
(* count of seconds.  Simulated timestamps (datetime) are integer seconds  *)
(* as well; timedelta(seconds=..) and timedelta(hours=..) are the          *)
(* operators timedelta_seconds and timedelta_hours.  Speeds are integers.  *)
(* datetime.max is DatetimeMax: the look-ahead of the predicted            *)
(* trajectory crosses it; the sums of the clock itself stay below it       *)
(* (InDatetimeRange) except under SpecInitial, where a client sets the     *)
(* clock to datetime.max.  The Newton-Raphson loop of the Kepler solver    *)
(* is modelled in fixed point under SpecKepler.  The float values          *)
(* NaN/Infinity are outside the model.                                     *)
(*                                                                         *)
(* Scheduling.  The handlers are asyncio coroutines: a handler runs        *)
(* uninterrupted from one await to the next, so each action below is one   *)
(* such synchronous section.  Inside a section every call of time.time()   *)
(* is a separate reading of the real clock: a later one may return a later *)
(* instant (the cost of the call itself).                                  *)
(***************************************************************************)
EXTENDS Integers, Sequences, FiniteSets, TLC

(***************************************************************************)
(* Bounds of the model.                                                    *)
(***************************************************************************)
\* Connections (WebSocket objects) that are ever accepted.
MaxConns == 2
\* The real clock runs from 0 to MaxReal.
MaxReal == 2
\* Real time that may pass between two readings of time.time() inside one
\* synchronous section.
MaxCallCost == 1
\* Largest speed a client asks for.
MaxSpeed == 2
\* Messages delivered to one connection: a coroutine takes the next inbound
\* message only while fewer have been delivered.
MaxOutbox == 2
\* Points of the trajectory a reply carries (steps, 50 by default in the
\* source).
DefaultSteps == 3
\* timedelta(hours=1) in seconds.
SecondsPerHour == 3600

Conns == 1..MaxConns

SpeedArgs == {-1, 0, MaxSpeed}
HoursArgs == {-1}
\* Parsed values of the ISO-8601 strings clients send with set_time.
TimeArgs == {100}
\* `command` values outside the seven known ones.
UnknownCommands == {"launch"}
\* Python's None, as str() prints it.
None == "None"

VARIABLES
    time_manager,   \* the global TimeFlowManager instance
    now,            \* time.time()
    pc,             \* pc[c]: where connection c's endpoint coroutine is
    pending,        \* pending[c]: the message c's coroutine is sending
    outbox,         \* outbox[c]: the messages delivered to c, in order
    http,           \* the body of the HTTP response of the step just taken
    bc,             \* the coroutine running TimeFlowManager.broadcast
    eng,            \* a call of an AsteroidSimulator method and its result
    last            \* observer: the last step taken and the state before it

vars == <<time_manager, now, pc, pending, outbox, http, bc, eng, last>>

NoMsg == [type |-> "none"]

(***************************************************************************)
(* datetime / timedelta arithmetic.                                        *)
(***************************************************************************)
timedelta_seconds(s) == s

timedelta_hours(h) == h * SecondsPerHour

\* datetime.fromisoformat(time_str.replace('Z', '+00:00')): a well-formed
\* string is the record [iso |-> t], its value is t; any other string is
\* the record [text |-> ..], and raises ValueError.
fromisoformat(time_str) ==
    IF "iso" \in DOMAIN time_str
        THEN [raised |-> None, value |-> time_str.iso]
        ELSE [raised |-> "ValueError"]

isoformat(t) == [iso |-> t]

(***************************************************************************)
(* Exceptions.  A call that can raise returns Ok(value) or Raise(name of   *)
(* the exception class).                                                   *)
(***************************************************************************)
Ok(v) == [raised |-> None, value |-> v]

Raise(e) == [raised |-> e]

\* The exception of the first call, in evaluation order, that raised.
RECURSIVE first_raised(_)
first_raised(results) ==
    IF results = <<>> THEN None
    ELSE IF Head(results).raised # None THEN Head(results).raised
    ELSE first_raised(Tail(results))

\* str(e) of the exceptions the model raises.
str(e) ==
    CASE e = "OverflowError" -> "date value out of range"
      [] e = "ValueError" -> "Invalid isoformat string"
      [] e = "TypeError" -> "unsupported operand type"
      [] e = "AttributeError" -> "object has no attribute 'get'"
      [] OTHER -> e

\* datetime.max: the largest timestamp a datetime holds.
DatetimeMax == 1000000000
\* datetime.min.
DatetimeMin == 0 - DatetimeMax
\* timedelta(days=1) in seconds.
SecondsPerDay == 86400

timedelta_days(d) == d * SecondsPerDay

\* datetime + timedelta, with the range check of datetime.
datetime_add(t, delta) ==
    IF t + delta > DatetimeMax \/ t + delta < DatetimeMin
        THEN Raise("OverflowError")
        ELSE Ok(t + delta)

(***************************************************************************)
(* AsteroidSimulator.  An orbital element is a Python value               *)
(* [kind |-> k, parses |-> b, v |-> n]: a float n (kind "float"), a string *)
(* (kind "str") that float() parses to n (parses) or rejects, or None      *)
(* (kind "None"); a record of elements may lack keys.  The eccentricity    *)
(* is counted in hundredths, the period in days.  The trigonometry is not  *)
(* computed: a position that was computed is the term of the values it     *)
(* was computed from.                                                      *)
(***************************************************************************)
\* Eccentricity 1.0 (in hundredths).
EccentricityOne == 100
\* epoch_jd, as a timestamp.
epoch_jd == 4320000
\* step_days default of calculate_predicted_trajectory.
DefaultStepDays == 10

_convert_to_float(value) ==
    IF value.kind = "str"
        THEN IF value.parses THEN Ok(value.v) ELSE Raise("ValueError")
        ELSE IF value.kind = "None" THEN Raise("TypeError") ELSE Ok(value.v)

\* self._convert_to_float(self.orbital_data[key])
element(orbital_data, key) ==
    IF key \in DOMAIN orbital_data
        THEN _convert_to_float(orbital_data[key])
        ELSE Raise("KeyError")

\* The Julian date: whole days and the seconds into the day.
_datetime_to_julian(dt) ==
    [day |-> dt \div SecondsPerDay, second |-> dt % SecondsPerDay]

\* n = 2 * math.pi / (T * 86400); M = n * ((jd - epoch_jd) * 86400), as the
\* seconds since the epoch.
mean_anomaly(T, target_time) ==
    IF T * SecondsPerDay = 0
        THEN Raise("ZeroDivisionError")
        ELSE Ok(target_time - epoch_jd)

\* _solve_kepler: M % (2 pi) is the phase within the period.  The first
\* Newton step divides by 1 - e*cos(E) with E = M: zero for e = 1 at phase 0.
\* For e < 1 the divisor is at least 1 - e > 0.
_solve_kepler(M, e, T) ==
    IF e = EccentricityOne /\ M % (T * SecondsPerDay) = 0
        THEN Raise("ZeroDivisionError")
        ELSE Ok([E_of |-> <<M % (T * SecondsPerDay), e>>])

\* math.sqrt
sqrt(x) == IF x < 0 THEN Raise("ValueError") ELSE Ok([sqrt_of |-> x])

\* The body of calculate_position's try block.
calculate_position_body(orbital_data, target_time) ==
    LET jd == _datetime_to_julian(target_time)
        a == element(orbital_data, "semi_major_axis")
        e == element(orbital_data, "eccentricity")
        i == element(orbital_data, "inclination")
        omega == element(orbital_data, "ascending_node_longitude")
        w == element(orbital_data, "perihelion_argument")
        T == element(orbital_data, "orbital_period")
        elements == first_raised(<<a, e, i, omega, w, T>>)
    IN  IF elements # None THEN Raise(elements)
        ELSE LET M == mean_anomaly(T.value, target_time)
             IN  IF M.raised # None THEN M
                 ELSE LET E == _solve_kepler(M.value, e.value, T.value)
                          nu == first_raised(
                                    <<E, sqrt(EccentricityOne + e.value),
                                      sqrt(EccentricityOne - e.value)>>)
                      IN  IF nu # None THEN Raise(nu)
                          ELSE Ok([computed_from |->
                                      <<a.value, e.value, i.value, omega.value,
                                        w.value, E.value>>,
                                   jd |-> jd])

\* The position calculate_position returns from its except block.
FallbackPosition == [x |-> 0, y |-> 0, z |-> 0, distance_from_sun |-> 1]

\* Mutant: only a failed conversion (ValueError) is caught.
AsteroidSimulator_calculate_position_value_errors_only(orbital_data, target_time) ==
    LET body == calculate_position_body(orbital_data, target_time)
    IN  IF body.raised = None THEN body
        ELSE IF body.raised = "ValueError" THEN Ok(FallbackPosition)
        ELSE body

\* AsteroidSimulator.calculate_position: try the body, except Exception
\* return the fallback.
AsteroidSimulator_calculate_position(orbital_data, target_time) ==
    LET body == calculate_position_body(orbital_data, target_time)
    IN  IF body.raised = None THEN body ELSE Ok(FallbackPosition)

\* The for loop of calculate_predicted_trajectory from `step` on, with the
\* points appended so far.
RECURSIVE trajectory_loop(_, _, _, _, _, _)
trajectory_loop(orbital_data, start_time, steps, step_days, step, trajectory) ==
    IF step >= steps THEN Ok(trajectory)
    ELSE LET point_time == datetime_add(start_time,
                                        timedelta_days(step * step_days))
         IN  IF point_time.raised # None THEN point_time
             ELSE LET position == AsteroidSimulator_calculate_position(
                                      orbital_data, point_time.value)
                  IN  trajectory_loop(
                          orbital_data, start_time, steps, step_days,
                          step + 1,
                          IF position.raised # None THEN trajectory
                          ELSE Append(trajectory,
                                      [time |-> [iso |-> point_time.value],
                                       position |-> position.value,
                                       step |-> step]))

AsteroidSimulator_calculate_predicted_trajectory(orbital_data, start_time, steps, step_days) ==
    trajectory_loop(orbital_data, start_time, steps, step_days, 0, <<>>)

\* The elements TimeFlowManager.__init__ gives its simulator: strings.
orbital_data ==
    [eccentricity |-> [kind |-> "str", parses |-> TRUE, v |-> 48],
     semi_major_axis |-> [kind |-> "str", parses |-> TRUE, v |-> 93],
     inclination |-> [kind |-> "str", parses |-> TRUE, v |-> 21],
     ascending_node_longitude |-> [kind |-> "str", parses |-> TRUE, v |-> 5],
     orbital_period |-> [kind |-> "str", parses |-> TRUE, v |-> 327],
     perihelion_argument |-> [kind |-> "str", parses |-> TRUE, v |-> 135]]

\* time_manager.asteroid_simulator.calculate_position(target_time)
calculate_position(target_time) ==
    AsteroidSimulator_calculate_position(orbital_data, target_time).value

\* time_manager.asteroid_simulator.calculate_predicted_trajectory(start_time)
calculate_predicted_trajectory(start_time) ==
    AsteroidSimulator_calculate_predicted_trajectory(
        orbital_data, start_time, DefaultSteps, DefaultStepDays)

(***************************************************************************)
(* TimeFlowManager: time control methods.  `self` is the manager record,   *)
(* the t arguments are the values the calls of time.time() return.         *)
(***************************************************************************)
\* Mutant: the elapsed real time is not scaled by the speed.
get_current_time_unscaled(self, t) ==
    IF ~self.is_time_running
    THEN self.base_time
    ELSE self.base_time + timedelta_seconds(t - self.base_real_time)

\* Mutant: the elapsed real time counts also while the clock is stopped.
get_current_time_always_elapsed(self, t) ==
    self.base_time
        + timedelta_seconds((t - self.base_real_time) * self.time_speed)

get_current_time(self, t) ==
    IF ~self.is_time_running
    THEN self.base_time
    ELSE LET real_elapsed == t - self.base_real_time
             simulated_elapsed == real_elapsed * self.time_speed
         IN  self.base_time + timedelta_seconds(simulated_elapsed)

\* Mutant: start() re-anchors without looking at the running flag.
start_time_unguarded(self, tB) ==
    [self EXCEPT !.base_time = get_current_time(self, tB),
                 !.base_real_time = tB,
                 !.is_time_running = TRUE]

start_time(self, tB) ==
    IF ~self.is_time_running
    THEN [self EXCEPT !.base_time = get_current_time(self, tB),
                      !.base_real_time = tB,
                      !.is_time_running = TRUE]
    ELSE self

\* Mutant: stop() flips the flag without capturing the current time.
stop_time_no_capture(self, tA) ==
    IF self.is_time_running
    THEN [self EXCEPT !.is_time_running = FALSE]
    ELSE self

stop_time(self, tA) ==
    IF self.is_time_running
    THEN [self EXCEPT !.base_time = get_current_time(self, tA),
                      !.is_time_running = FALSE]
    ELSE self

\* Mutant: the new speed is applied before the current time is captured.
set_time_speed_speed_first(self, speed, tA, tB) ==
    LET clamped == IF speed < 0 THEN 0 ELSE speed
        current_time ==
            get_current_time([self EXCEPT !.time_speed = clamped], tA)
    IN  [self EXCEPT !.time_speed = clamped,
                     !.base_time = current_time,
                     !.base_real_time = tB]

\* Mutant: the speed is stored without the clamp.
set_time_speed_unclamped(self, speed, tA, tB) ==
    [self EXCEPT !.time_speed = speed,
                 !.base_time = get_current_time(self, tA),
                 !.base_real_time = tB]

set_time_speed(self, speed, tA, tB) ==
    LET clamped == IF speed < 0 THEN 0 ELSE speed
        current_time == get_current_time(self, tA)
    IN  [self EXCEPT !.time_speed = clamped,
                     !.base_time = current_time,
                     !.base_real_time = tB]

\* Mutant: set_time leaves the real anchor where it was.
set_time_keep_real_anchor(self, new_time, tB) ==
    [self EXCEPT !.base_time = new_time]

set_time(self, new_time, tB) ==
    [self EXCEPT !.base_time = new_time,
                 !.base_real_time = tB]

\* Mutant: the hours are added to the anchor, not to the current time.
fast_forward_from_anchor(self, hours, tA, tB) ==
    set_time(self, self.base_time + timedelta_hours(hours), tB)

\* Mutant: the current time was captured before the step of another
\* coroutine (a suspension between the capture and the update).
fast_forward_stale_capture(self, hours, tA, tB) ==
    set_time(self, get_current_time(last.self, tA) + timedelta_hours(hours),
             tB)

fast_forward(self, hours, tA, tB) ==
    LET current_time == get_current_time(self, tA)
        new_time == current_time + timedelta_hours(hours)
    IN  set_time(self, new_time, tB)

(***************************************************************************)
(* TimeFlowManager: the hub.                                               *)
(***************************************************************************)
RECURSIVE list_remove(_, _)
\* list.remove(x): the list without the first occurrence of x.
list_remove(l, x) ==
    IF l = <<>> THEN <<>>
    ELSE IF Head(l) = x THEN Tail(l)
    ELSE <<Head(l)>> \o list_remove(Tail(l), x)

list_contains(l, x) == \E i \in 1..Len(l) : l[i] = x

\* Mutant: the last connection of the list is removed, whichever it is.
disconnect_pop(self, websocket) ==
    IF self.active_connections # <<>>
    THEN [self EXCEPT !.active_connections =
                          SubSeq(@, 1, Len(@) - 1)]
    ELSE self

disconnect(self, websocket) ==
    IF list_contains(self.active_connections, websocket)
    THEN [self EXCEPT !.active_connections = list_remove(@, websocket)]
    ELSE self

(***************************************************************************)
(* Inbound messages (the JSON objects json.loads returns).                 *)
(***************************************************************************)
Messages ==
    {[command |-> k] : k \in {"start", "stop", "get_state", "request_update"}}
    \cup {[command |-> "set_speed", speed |-> s] : s \in SpeedArgs}
    \cup {[command |-> "set_speed"]}
    \cup {[command |-> "set_time", time |-> isoformat(t)] : t \in TimeArgs}
    \cup {[command |-> "set_time"]}
    \cup {[command |-> "fast_forward", hours |-> h] : h \in HoursArgs}
    \cup {[command |-> "fast_forward"]}
    \cup {[command |-> u] : u \in UnknownCommands}
    \cup {[speed |-> 1]}

\* The string "".
EmptyString == [text |-> ""]

\* dict.get(key, default)
dict_get(d, key, default) == IF key \in DOMAIN d THEN d[key] ELSE default

\* The command of a message: message.get("command").
command_of(message) == dict_get(message, "command", None)

(***************************************************************************)
(* _handle_time_command up to its await: the manager it leaves and the     *)
(* message it hands to _send_to_websocket (NoMsg: it sends nothing).       *)
(* tA, tB, tC are the successive readings of time.time(): tA inside the    *)
(* method's get_current_time(), tB the method's own time.time(), tC inside *)
(* the handler's get_current_time() after the method returned.             *)
(***************************************************************************)
\* The handler's branch returned after handing `reply` to
\* _send_to_websocket, or raised e.
Returned(self, reply) == [self |-> self, reply |-> reply, raised |-> None]

Raised(self, e) == [self |-> self, reply |-> NoMsg, raised |-> e]

\* A JSON member `key` that holds a string where the handler expects a
\* number is the field key_str of the message.
is_str(message, key) == (key \o "_str") \in DOMAIN message

\* The end of a branch that computes the predicted trajectory last: the
\* trajectory call raised, or the reply is sent with the trajectory in it.
with_trajectory(self, predicted_trajectory, reply) ==
    IF predicted_trajectory.raised # None
    THEN Raised(self, predicted_trajectory.raised)
    ELSE Returned(self,
             reply @@ ("predicted_trajectory" :> predicted_trajectory.value))

handle_start(self, tB, tC) ==
    LET after == start_time(self, tB)
        current_time == get_current_time(after, tC)
    IN  with_trajectory(after, calculate_predicted_trajectory(current_time),
            [type |-> "command_success", command |-> "start",
             message |-> "Time started",
             current_time |-> isoformat(current_time),
             asteroid_position |-> calculate_position(current_time)])

handle_stop(self, tA, tC) ==
    LET after == stop_time(self, tA)
        current_time == get_current_time(after, tC)
    IN  Returned(after,
            [type |-> "command_success", command |-> "stop",
             message |-> "Time stopped",
             current_time |-> isoformat(current_time),
             asteroid_position |-> calculate_position(current_time)])

handle_set_speed(message, self, tA, tB, tC) ==
    \* `speed < 0` on a string raises before anything is assigned
    IF is_str(message, "speed") THEN Raised(self, "TypeError")
    ELSE
    LET speed == dict_get(message, "speed", 1)
        after == set_time_speed(self, speed, tA, tB)
        current_time == get_current_time(after, tC)
    IN  Returned(after,
            [type |-> "command_success", command |-> "set_speed",
             speed |-> speed,
             message |-> "Time speed set to " \o ToString(speed) \o "x",
             current_time |-> isoformat(current_time),
             asteroid_position |-> calculate_position(current_time)])

handle_set_time(message, self, tB) ==
    \* `if time_str:` holds for a present, non-empty string
    IF "time" \in DOMAIN message /\ message.time # EmptyString
        THEN LET time_str == dict_get(message, "time", None)
                 new_time == fromisoformat(time_str)
             IN  IF new_time.raised # None
                 THEN Raised(self, new_time.raised)
                 ELSE with_trajectory(
                          set_time(self, new_time.value, tB),
                          calculate_predicted_trajectory(new_time.value),
                          [type |-> "command_success",
                           command |-> "set_time",
                           time |-> isoformat(new_time.value),
                           message |-> "Time set to "
                                          \o ToString(new_time.value),
                           asteroid_position |->
                               calculate_position(new_time.value)])
        ELSE Returned(self, NoMsg)

handle_fast_forward(message, self, tA, tB, tC) ==
    \* timedelta(hours=..) on a string raises before set_time is called
    IF is_str(message, "hours") THEN Raised(self, "TypeError")
    ELSE
    LET hours == dict_get(message, "hours", 1)
        after == fast_forward(self, hours, tA, tB)
        current_time == get_current_time(after, tC)
    IN  with_trajectory(after, calculate_predicted_trajectory(current_time),
            [type |-> "command_success", command |-> "fast_forward",
             hours |-> hours,
             message |-> "Fast forwarded " \o ToString(hours) \o " hours",
             current_time |-> isoformat(current_time),
             asteroid_position |-> calculate_position(current_time)])

\* Mutant: the running flag is the one of the manager before the step of
\* another coroutine (the fields are read across a suspension).
snapshot_torn(type, self, tC) ==
    LET current_time == get_current_time(self, tC)
    IN  [type |-> type,
         is_running |-> last.self.is_time_running,
         time_speed |-> self.time_speed,
         current_time |-> isoformat(current_time),
         asteroid_position |-> calculate_position(current_time)]

\* The snapshot of get_state ("time_state"), request_update ("time_update")
\* and connect ("initial_state"), before the trajectory is put in it.
snapshot(type, self, tC) ==
    LET current_time == get_current_time(self, tC)
    IN  [type |-> type,
         is_running |-> self.is_time_running,
         time_speed |-> self.time_speed,
         current_time |-> isoformat(current_time),
         asteroid_position |-> calculate_position(current_time)]

\* get_state ("time_state") and request_update ("time_update").
\* Mutant: the read re-anchors the clock at the time it reports.
handle_read_reanchoring(type, self, tC) ==
    with_trajectory(set_time(self, get_current_time(self, tC), tC),
                    calculate_predicted_trajectory(get_current_time(self, tC)),
                    snapshot(type, self, tC))

handle_read(type, self, tC) ==
    with_trajectory(self,
                    calculate_predicted_trajectory(get_current_time(self, tC)),
                    snapshot(type, self, tC))

\* Mutant: the error does not name the command.
handle_unknown_unnamed(command, self) ==
    Returned(self, [type |-> "error", message |-> "Unknown command"])

handle_unknown(command, self) ==
    Returned(self, [type |-> "error",
                    message |-> "Unknown command: " \o command])

\* The try block of _handle_time_command: the branch of the command.
handle_branch(message, self, tA, tB, tC) ==
    LET command == command_of(message)
    IN  CASE command = "start" -> handle_start(self, tB, tC)
          [] command = "stop" -> handle_stop(self, tA, tC)
          [] command = "set_speed" -> handle_set_speed(message, self, tA, tB, tC)
          [] command = "set_time" -> handle_set_time(message, self, tB)
          [] command = "fast_forward" ->
                handle_fast_forward(message, self, tA, tB, tC)
          [] command = "get_state" -> handle_read("time_state", self, tC)
          [] command = "request_update" -> handle_read("time_update", self, tC)
          [] OTHER -> handle_unknown(command, self)

\* The message of the except block of _handle_time_command.
error_reply(command, e) ==
    [type |-> "error",
     message |-> "Error processing command '" \o command \o "': " \o str(e)]

\* The try block ended as r: what is sent is its reply, or the message of
\* the except block when it raised.
except_block(command, r) ==
    IF r.raised # None
    THEN [self |-> r.self, reply |-> error_reply(command, r.raised)]
    ELSE [self |-> r.self, reply |-> r.reply]

\* _handle_time_command: the try block and the except block.
handle(message, self, tA, tB, tC) ==
    except_block(command_of(message),
                 handle_branch(message, self, tA, tB, tC))

\* What the model keeps of a message once it is in flight or delivered: its
\* discriminators and echoed arguments, without the payload derived from
\* the clock (that payload is in last.reply when the message is built).
envelope(msg) ==
    [k \in DOMAIN msg \cap {"type", "command", "message", "speed", "hours"}
        |-> msg[k]]

(***************************************************************************)
(* The state after construction (module import): no connection, the clock  *)
(* stopped at speed 1.0, anchored at the construction instant.             *)
(***************************************************************************)
TimeFlowManager_init ==
    [active_connections |-> <<>>,
     is_time_running |-> FALSE,
     time_speed |-> 1,
     base_time |-> 0,
     base_real_time |-> 0]

\* The coroutine of TimeFlowManager.broadcast: where it is (idle: not
\* called yet; send: suspended at the await of send_text to `connection`;
\* returned), its message, its list `disconnected`, the number i of
\* elements its list iterator has yielded; and for the observer the list
\* it found when it began, the connections it called send_text on and
\* those whose send_text returned, whether the list was as it began at
\* every one of its steps, and the connections earlier broadcasts removed.
BroadcastIdle ==
    [pc |-> "idle", message |-> NoMsg, connection |-> 0, i |-> 0,
     disconnected |-> <<>>, began |-> <<>>, attempted |-> <<>>,
     delivered |-> <<>>, undisturbed |-> TRUE, dropped |-> {}]

\* No AsteroidSimulator method has been called from outside the manager.
NoCall == [method |-> "none"]

\* The observer's record of a step: what ran, for whom, with which inbound
\* message, the message it built, the simulated time and the manager before
\* the step, and the readings tA, tB of time.time().
Step(op, c, message, reply, tA, tB) ==
    [op |-> op, conn |-> c, message |-> message, reply |-> reply,
     self |-> time_manager, tA |-> tA, tB |-> tB]

Init ==
    /\ time_manager = TimeFlowManager_init
    /\ now = 0
    /\ pc = [c \in Conns |-> "new"]
    /\ pending = [c \in Conns |-> NoMsg]
    /\ outbox = [c \in Conns |-> <<>>]
    /\ http = NoMsg
    /\ bc = BroadcastIdle
    /\ eng = NoCall
    /\ last = [op |-> "init", conn |-> 0, message |-> NoMsg, reply |-> NoMsg,
               self |-> TimeFlowManager_init, tA |-> 0, tB |-> 0]

\* Real time passes.
Tick ==
    /\ now < MaxReal
    /\ now' = now + 1
    /\ last' = Step("tick", 0, NoMsg, NoMsg, now, now)
    /\ http' = NoMsg
    /\ UNCHANGED <<time_manager, pc, pending, outbox>>
    /\ UNCHANGED <<bc, eng>>

\* The try and except blocks of connect: the initial snapshot, or the
\* error when the trajectory call raised.
connect_except(r) ==
    IF r.raised # None
    THEN [self |-> r.self,
          reply |-> [type |-> "error",
                     message |-> "Initialization error: " \o str(r.raised)]]
    ELSE [self |-> r.self, reply |-> r.reply]

connect_try(self, t) ==
    connect_except(
        with_trajectory(self,
                        calculate_predicted_trajectory(
                            get_current_time(self, t)),
                        snapshot("initial_state", self, t)))

\* connect after the append: get_current_time() is called before the try,
\* so the OverflowError of base_time + timedelta past datetime.max leaves
\* connect; else the try and except blocks build the message to send.
connect_body(self, t) ==
    IF get_current_time(self, t) \notin DatetimeMin..DatetimeMax
    THEN Raised(self, "OverflowError")
    ELSE Returned(self, connect_try(self, t).reply)

(***************************************************************************)
(* TimeFlowManager.connect, from the return of websocket.accept() to the   *)
(* await of the initial snapshot's send.  When connect raises, the         *)
(* exception leaves websocket_time_endpoint too (the call is before its    *)
(* try): the coroutine is over ("crashed") and the connection stays in     *)
(* active_connections.                                                     *)
(***************************************************************************)
connect(websocket) ==
    /\ pc[websocket] = "new"
    /\ \E r \in {connect_body(
                     [time_manager EXCEPT
                         !.active_connections = Append(@, websocket)],
                     now)} :
          /\ time_manager' = r.self
          /\ pending' = [pending EXCEPT ![websocket] = envelope(r.reply)]
          /\ last' = Step("connect", websocket, NoMsg, r.reply, now, now)
          /\ pc' = [pc EXCEPT ![websocket] =
                       IF r.raised # None THEN "crashed" ELSE "send"]
    /\ http' = NoMsg
    /\ UNCHANGED <<now, outbox>>
    /\ UNCHANGED <<bc, eng>>

(***************************************************************************)
(* _send_to_websocket: the await of websocket.send_text returns (ok) or    *)
(* raises (~ok), and then the connection is dropped from the hub.  Either  *)
(* way the coroutine goes on to wait for the next inbound message; on a    *)
(* transport that failed ("lost") that wait ends in WebSocketDisconnect.   *)
(***************************************************************************)
_send_to_websocket(websocket, ok) ==
    /\ pc[websocket] = "send"
    /\ IF ok
       THEN /\ outbox' = [outbox EXCEPT
                            ![websocket] = Append(@, pending[websocket])]
            /\ UNCHANGED time_manager
       ELSE /\ time_manager' = disconnect(time_manager, websocket)
            /\ UNCHANGED outbox
    /\ pending' = [pending EXCEPT ![websocket] = NoMsg]
    /\ pc' = [pc EXCEPT ![websocket] = IF ok THEN "recv" ELSE "lost"]
    /\ last' = Step(IF ok THEN "sent" ELSE "send_failed", websocket,
                    NoMsg, pending[websocket], now, now)
    /\ http' = NoMsg
    /\ UNCHANGED now
    /\ UNCHANGED <<bc, eng>>

\* Commands whose method reads the clock twice (tA, then tB).
ReadsAB == {"set_speed", "fast_forward"}
\* Commands whose handler reads the clock again (tC) after the method's tB.
ReadsBC == {"start", "set_speed", "fast_forward"}

(***************************************************************************)
(* websocket_time_endpoint: receive_text returns a message and             *)
(* _handle_time_command runs up to its await.                              *)
(***************************************************************************)
_handle_time_command(message, websocket) ==
    /\ pc[websocket] = "recv"
    /\ Len(outbox[websocket]) < MaxOutbox
    /\ \E d1, d2 \in 0..MaxCallCost :
          LET command == command_of(message)
              tA == now
              tB == now + d1
              tC == now + d1 + d2
          IN  /\ (d1 > 0) => command \in ReadsAB
              /\ (d2 > 0) => command \in ReadsBC
              /\ tC <= MaxReal
              /\ \E r \in {handle(message, time_manager, tA, tB, tC)} :
                    /\ time_manager' = r.self
                    /\ now' = tC
                    /\ pending' = [pending EXCEPT
                                      ![websocket] = envelope(r.reply)]
                    /\ pc' = [pc EXCEPT ![websocket] =
                                 IF r.reply = NoMsg THEN "recv" ELSE "send"]
                    /\ last' = Step("command", websocket, message,
                                    r.reply, tA, tB)
    /\ http' = NoMsg
    /\ UNCHANGED outbox
    /\ UNCHANGED <<bc, eng>>

(***************************************************************************)
(* websocket_time_endpoint: receive_text returns a text that json.loads    *)
(* rejects (JSONDecodeError), or that is JSON but no object, so that        *)
(* message.get raises AttributeError before the try of                     *)
(* _handle_time_command; the endpoint's except blocks send the error.      *)
(***************************************************************************)
BadTexts == {[text |-> "not json"], [json |-> "array"]}

\* Mutant: only JSONDecodeError is caught, any other exception ends the
\* coroutine.
endpoint_except_json_only(data) ==
    IF "json" \in DOMAIN data
        THEN [caught |-> FALSE, reply |-> NoMsg]
        ELSE [caught |-> TRUE,
              reply |-> [type |-> "error", message |-> "Invalid JSON"]]

\* The except blocks of the receive loop.
endpoint_except(data) ==
    IF "json" \in DOMAIN data
        THEN [caught |-> TRUE,
              reply |-> [type |-> "error",
                         message |-> str("AttributeError")]]
        ELSE [caught |-> TRUE,
              reply |-> [type |-> "error", message |-> "Invalid JSON"]]

websocket_time_endpoint(data, websocket) ==
    /\ pc[websocket] = "recv"
    /\ Len(outbox[websocket]) < MaxOutbox
    /\ LET r == endpoint_except(data)
       IN  /\ pending' = [pending EXCEPT ![websocket] = envelope(r.reply)]
           /\ pc' = [pc EXCEPT ![websocket] =
                           IF r.caught THEN "send" ELSE "done"]
           /\ last' = Step("text", websocket, data, r.reply, now, now)
    /\ http' = NoMsg
    /\ UNCHANGED <<time_manager, now, outbox, bc, eng>>

(***************************************************************************)
(* TimeFlowManager.broadcast.  `for connection in self.active_connections` *)
(* iterates the list object itself: the iterator keeps the count i of the  *)
(* elements it has yielded and yields element i of the list as it is at    *)
(* that moment, or stops if the list has no such element.  The coroutine   *)
(* is suspended at each await of send_text, where other coroutines run.    *)
(***************************************************************************)
BroadcastMessages == {[type |-> "time_update"]}

\* for connection in disconnected: self.disconnect(connection)
RECURSIVE disconnect_each(_, _)
disconnect_each(self, disconnected) ==
    IF disconnected = <<>> THEN self
    ELSE disconnect_each(disconnect(self, Head(disconnected)),
                         Tail(disconnected))

Range(l) == {l[k] : k \in 1..Len(l)}

\* The list iterator's next step: the loop body is entered for the next
\* element, or the loop is over, the failed connections are disconnected
\* and broadcast returns.
broadcast_next(self, b) ==
    LET connections == self.active_connections
    IN  IF b.i < Len(connections)
        THEN [self |-> self,
              bc |-> [b EXCEPT !.pc = "send",
                               !.connection = connections[b.i + 1],
                               !.i = b.i + 1,
                               !.attempted =
                                   Append(@, connections[b.i + 1])]]
        ELSE [self |-> disconnect_each(self, b.disconnected),
              bc |-> [b EXCEPT !.pc = "returned",
                               !.connection = 0,
                               !.dropped = @ \cup Range(b.disconnected)]]

\* Mutant: a failed send_text is not caught, the exception ends broadcast.
broadcast_after_send_uncaught(self, b, ok) ==
    IF ok
    THEN broadcast_next(self, [b EXCEPT !.delivered = Append(@, b.connection)])
    ELSE [self |-> self,
          bc |-> [b EXCEPT !.pc = "returned", !.connection = 0]]

\* The await of send_text returned (ok) or raised (~ok): the except block
\* notes the connection, and the loop goes on.
broadcast_after_send(self, b, ok) ==
    broadcast_next(self,
        IF ok THEN [b EXCEPT !.delivered = Append(@, b.connection)]
        ELSE [b EXCEPT !.disconnected = Append(@, b.connection)])

\* broadcast(message) is called: it returns at once on an empty list, else
\* runs up to its first await.
broadcast_begin(message) ==
    /\ bc.pc \in {"idle", "returned"}
    /\ \A c \in Conns : Len(outbox[c]) < MaxOutbox
    /\ LET connections == time_manager.active_connections
           b == [BroadcastIdle EXCEPT !.message = message,
                                      !.began = connections,
                                      !.dropped = bc.dropped]
           r == IF connections = <<>>
                THEN [self |-> time_manager,
                      bc |-> [b EXCEPT !.pc = "returned"]]
                ELSE broadcast_next(time_manager, b)
       IN  /\ bc' = r.bc
           /\ time_manager' = r.self
    /\ last' = Step("broadcast", 0, NoMsg, message, now, now)
    /\ http' = NoMsg
    /\ UNCHANGED <<now, pc, pending, outbox, eng>>

\* broadcast resumes from its await.
broadcast_send(ok) ==
    /\ bc.pc = "send"
    /\ LET b == [bc EXCEPT !.undisturbed =
                     @ /\ time_manager.active_connections = bc.began]
           r == broadcast_after_send(time_manager, b, ok)
       IN  /\ bc' = r.bc
           /\ time_manager' = r.self
    /\ outbox' = IF ok
                 THEN [outbox EXCEPT
                          ![bc.connection] = Append(@, envelope(bc.message))]
                 ELSE outbox
    /\ last' = Step(IF ok THEN "broadcast_sent" ELSE "broadcast_send_failed",
                    bc.connection, NoMsg, bc.message, now, now)
    /\ http' = NoMsg
    /\ UNCHANGED <<now, pc, pending, eng>>

(***************************************************************************)
(* Calls of the AsteroidSimulator methods on the elements eng holds.       *)
(***************************************************************************)
call_calculate_position(target_time) ==
    /\ eng' = [method |-> "calculate_position",
               orbital_data |-> eng.orbital_data,
               target_time |-> target_time,
               result |-> AsteroidSimulator_calculate_position(
                              eng.orbital_data, target_time)]
    /\ UNCHANGED <<time_manager, now, pc, pending, outbox, http, bc, last>>

call_calculate_predicted_trajectory(start, steps, step_days) ==
    /\ eng' = [method |-> "calculate_predicted_trajectory",
               orbital_data |-> eng.orbital_data,
               start_time |-> start,
               steps |-> steps,
               step_days |-> step_days,
               result |-> AsteroidSimulator_calculate_predicted_trajectory(
                              eng.orbital_data, start, steps, step_days)]
    /\ UNCHANGED <<time_manager, now, pc, pending, outbox, http, bc, last>>

\* websocket_time_endpoint: receive_text raises WebSocketDisconnect.
websocket_disconnect(websocket) ==
    /\ pc[websocket] \in {"recv", "lost"}
    /\ time_manager' = disconnect(time_manager, websocket)
    /\ pc' = [pc EXCEPT ![websocket] = "done"]
    /\ last' = Step("disconnect", websocket, NoMsg, NoMsg, now, now)
    /\ http' = NoMsg
    /\ UNCHANGED <<now, pending, outbox>>
    /\ UNCHANGED <<bc, eng>>

(***************************************************************************)
(* The one-shot HTTP operations.                                           *)
(***************************************************************************)
endpoint_current ==
    /\ LET current_time == get_current_time(time_manager, now)
           body == [current_time |-> isoformat(current_time),
                    is_running |-> time_manager.is_time_running,
                    time_speed |-> time_manager.time_speed,
                    asteroid_position |-> calculate_position(current_time)]
       IN  /\ http' = body
           /\ last' = Step("GET /current", 0, NoMsg, body, now, now)
    /\ UNCHANGED <<time_manager, now, pc, pending, outbox>>
    /\ UNCHANGED <<bc, eng>>

endpoint_start ==
    /\ time_manager' = start_time(time_manager, now)
    /\ http' = [status |-> "started"]
    /\ last' = Step("POST /start", 0, [command |-> "start"],
                    [status |-> "started"], now, now)
    /\ UNCHANGED <<now, pc, pending, outbox>>
    /\ UNCHANGED <<bc, eng>>

endpoint_stop ==
    /\ time_manager' = stop_time(time_manager, now)
    /\ http' = [status |-> "stopped"]
    /\ last' = Step("POST /stop", 0, [command |-> "stop"],
                    [status |-> "stopped"], now, now)
    /\ UNCHANGED <<now, pc, pending, outbox>>
    /\ UNCHANGED <<bc, eng>>

endpoint_speed(speed) ==
    /\ \E d1 \in 0..MaxCallCost :
          /\ now + d1 <= MaxReal
          /\ time_manager' = set_time_speed(time_manager, speed, now, now + d1)
          /\ now' = now + d1
          /\ last' = Step("POST /speed", 0,
                          [command |-> "set_speed", speed |-> speed],
                          [status |-> "speed_set", speed |-> speed],
                          now, now + d1)
    /\ http' = [status |-> "speed_set", speed |-> speed]
    /\ UNCHANGED <<pc, pending, outbox>>
    /\ UNCHANGED <<bc, eng>>

(***************************************************************************)
(* Spec, the clock specification: one streaming client, every command,     *)
(* the one-shot HTTP operations and the passing of real time.              *)
(***************************************************************************)
ClockConns == {1}

Next ==
    \/ Tick
    \/ \E c \in ClockConns : connect(c)
    \/ \E c \in ClockConns, ok \in BOOLEAN : _send_to_websocket(c, ok)
    \/ \E c \in ClockConns, message \in Messages :
          _handle_time_command(message, c)
    \/ \E c \in ClockConns : websocket_disconnect(c)
    \/ endpoint_current
    \/ endpoint_start
    \/ endpoint_stop
    \/ \E speed \in SpeedArgs : endpoint_speed(speed)

Spec == Init /\ [][Next]_vars

(***************************************************************************)
(* SpecHub, the hub specification: every connection, with a command that  *)
(* moves the clock, the unrecognized ones and a message without `command`. *)
(***************************************************************************)
HubMessages ==
    {[command |-> "start"], [speed |-> 1]}
    \cup {[command |-> u] : u \in UnknownCommands}

NextHub ==
    \/ \E c \in Conns : connect(c)
    \/ \E c \in Conns, ok \in BOOLEAN : _send_to_websocket(c, ok)
    \/ \E c \in Conns, message \in HubMessages :
          _handle_time_command(message, c)
    \/ \E c \in Conns : websocket_disconnect(c)

SpecHub == Init /\ [][NextHub]_vars

(***************************************************************************)
(* SpecBroadcast, the broadcast specification: every connection joins,     *)
(* is sent its initial snapshot and may disconnect, POST /start moves the  *)
(* clock, and broadcasts run, suspended at each of their sends.            *)
(***************************************************************************)
NextBroadcast ==
    \/ \E c \in Conns : connect(c)
    \/ \E c \in Conns, ok \in BOOLEAN : _send_to_websocket(c, ok)
    \/ \E c \in Conns : websocket_disconnect(c)
    \/ endpoint_start
    \/ \E message \in BroadcastMessages : broadcast_begin(message)
    \/ \E ok \in BOOLEAN : broadcast_send(ok)

SpecBroadcast == Init /\ [][NextBroadcast]_vars

(***************************************************************************)
(* SpecRace, the serialization specification: the coroutines of every      *)
(* connection and the one-shot HTTP operations issue the five clock        *)
(* operations, interleaved at every await, while real time passes.         *)
(***************************************************************************)
RaceMessages ==
    {[command |-> "start"], [command |-> "stop"],
     [command |-> "set_speed", speed |-> MaxSpeed],
     [command |-> "fast_forward"]}
    \cup {[command |-> "set_time", time |-> isoformat(t)] : t \in TimeArgs}

NextRace ==
    \/ Tick
    \/ \E c \in Conns : connect(c)
    \/ \E c \in Conns : _send_to_websocket(c, TRUE)
    \/ \E c \in Conns, message \in RaceMessages :
          _handle_time_command(message, c)
    \/ endpoint_start
    \/ endpoint_stop
    \/ \E speed \in SpeedArgs : endpoint_speed(speed)

SpecRace == Init /\ [][NextRace]_vars

(***************************************************************************)
(* SpecEngine, the engine specification: a simulator is constructed on a   *)
(* record of elements, and its methods are called.                         *)
(***************************************************************************)
\* Values of the eccentricity: the manager's string, a string float()
\* rejects, None, and the floats 0, 1.0 and 1.5.
EccentricityValues ==
    {orbital_data.eccentricity,
     [kind |-> "str", parses |-> FALSE, v |-> 0],
     [kind |-> "None", parses |-> FALSE, v |-> 0],
     [kind |-> "float", parses |-> TRUE, v |-> 0],
     [kind |-> "float", parses |-> TRUE, v |-> EccentricityOne],
     [kind |-> "float", parses |-> TRUE, v |-> EccentricityOne + 50]}

\* Values of the period: the manager's string and the float 0.
PeriodValues ==
    {orbital_data.orbital_period, [kind |-> "float", parses |-> TRUE, v |-> 0]}

\* Keys a record of elements may lack.
MissingKeys ==
    {{}, {"eccentricity"}, {"orbital_period"}, {"semi_major_axis"}}

OrbitalRecords ==
    {[k \in (DOMAIN orbital_data) \ missing |->
         IF k = "eccentricity" THEN e
         ELSE IF k = "orbital_period" THEN T
         ELSE orbital_data[k]] :
       e \in EccentricityValues, T \in PeriodValues, missing \in MissingKeys}

\* Timestamps the methods are called with: the epoch, an instant before
\* it, and one day before datetime.max.
EngineTimes == {epoch_jd, epoch_jd - 100, DatetimeMax - SecondsPerDay}

InitEngine ==
    /\ time_manager = TimeFlowManager_init
    /\ now = 0
    /\ pc = [c \in Conns |-> "new"]
    /\ pending = [c \in Conns |-> NoMsg]
    /\ outbox = [c \in Conns |-> <<>>]
    /\ http = NoMsg
    /\ bc = BroadcastIdle
    /\ \E elements \in OrbitalRecords :
          eng = [method |-> "__init__", orbital_data |-> elements]
    /\ last = [op |-> "init", conn |-> 0, message |-> NoMsg, reply |-> NoMsg,
               self |-> TimeFlowManager_init, tA |-> 0, tB |-> 0]

NextEngine ==
    \/ \E target_time \in EngineTimes : call_calculate_position(target_time)
    \/ \E start \in EngineTimes, steps \in 0..DefaultSteps,
          step_days \in {1, DefaultStepDays} :
          call_calculate_predicted_trajectory(start, steps, step_days)

SpecEngine == InitEngine /\ [][NextEngine]_vars

(***************************************************************************)
(* The Newton-Raphson loop of _solve_kepler, one iteration a step.  Its    *)
(* floats are fixed-point numbers: angles in thousandths of a radian, the  *)
(* eccentricity in hundredths; a quotient is rounded toward zero and       *)
(* math.sin is Bhaskara's rational approximation of the sine.  The         *)
(* tolerance 1e-12 lies below this resolution: a step is below it when it  *)
(* is smaller than one unit.  NaN and the infinities are outside the       *)
(* model.                                                                  *)
(***************************************************************************)
\* Units of a radian.
Scale == 1000
\* math.pi
Pi == 3142
\* range(50)
MaxIterations == 50
\* tolerance
Tolerance == 1

abs(x) == IF x < 0 THEN 0 - x ELSE x

\* a / b on floats
float_div(a, b) ==
    IF b = 0 THEN Raise("ZeroDivisionError")
    ELSE Ok(IF (a >= 0) = (b > 0) THEN abs(a) \div abs(b)
                                  ELSE 0 - (abs(a) \div abs(b)))

\* The sine of an angle of [0, pi].
half_wave(x) ==
    (16 * x * (Pi - x)) \div ((5 * Pi * Pi - 4 * x * (Pi - x)) \div Scale)

math_sin(x) ==
    IF x % (2 * Pi) <= Pi THEN half_wave(x % (2 * Pi))
                          ELSE 0 - half_wave((x % (2 * Pi)) - Pi)

math_cos(x) == math_sin(x + Pi \div 2)

\* delta_E = (E - e * math.sin(E) - M) / (1 - e * math.cos(E))
delta_E(M, e, E) ==
    float_div(
        (E - float_div(e * math_sin(E), EccentricityOne).value - M) * Scale,
        Scale - float_div(e * math_cos(E), EccentricityOne).value)

\* The frame of the loop once its body ran with the step d: the division
\* raised, or E moved by d and the loop breaks, is exhausted or goes on.
for_body(frame, d) ==
    IF d.raised # None
    THEN [frame EXCEPT !.iterations = @ + 1, !.pc = "raised",
                       !.raised = d.raised]
    ELSE [frame EXCEPT
             !.iterations = @ + 1,
             !.E = @ - d.value,
             !.delta_E = d.value,
             !.broke = abs(d.value) < Tolerance,
             !.pc = IF abs(d.value) < Tolerance
                       \/ frame.iterations + 1 = MaxIterations
                    THEN "returned" ELSE "loop"]

\* _solve_kepler is called: M is normalised and is the initial guess.
solve_kepler_call(M, e) ==
    /\ IF eng = NoCall THEN TRUE ELSE eng.pc # "loop"
    /\ eng' = [method |-> "_solve_kepler", M_arg |-> M, e |-> e,
               M |-> M % (2 * Pi), E |-> M % (2 * Pi),
               iterations |-> 0, delta_E |-> 0, broke |-> FALSE,
               raised |-> None, pc |-> "loop"]
    /\ UNCHANGED <<time_manager, now, pc, pending, outbox, http, bc, last>>

\* One iteration of `for _ in range(50)`.
solve_kepler_iterate ==
    /\ eng # NoCall
    /\ eng.pc = "loop"
    /\ eng' = for_body(eng, delta_E(eng.M, eng.e, eng.E))
    /\ UNCHANGED <<time_manager, now, pc, pending, outbox, http, bc, last>>

(***************************************************************************)
(* SpecKepler, the solver specification: _solve_kepler called with mean    *)
(* anomalies inside, below and above [0, 2 pi) and with eccentricities of  *)
(* ellipses (0 to 0.9), the parabola (1.0) and a hyperbola (1.5).          *)
(***************************************************************************)
MValues == {0, 1000, 2000, 3000, 4000, 5000}
EValues == {0, 20, 50, 90, EccentricityOne, EccentricityOne + 50}

KeplerInputs ==
    (MValues \X EValues)
    \cup {<<6000, EccentricityOne + 50>>, <<0 - 283, EccentricityOne + 50>>,
          <<2 * Pi + 1000, 50>>}

NextKepler ==
    \/ \E input \in KeplerInputs : solve_kepler_call(input[1], input[2])
    \/ solve_kepler_iterate

SpecKepler == Init /\ [][NextKepler]_vars

\* The loop is not starved: the call runs to its end once made.
FairSpecKepler == SpecKepler /\ WF_vars(solve_kepler_iterate)

(***************************************************************************)
(* SpecInitial, the connection specification: clients connect while real   *)
(* time passes, broadcasts run, a client sets the clock to datetime.max    *)
(* and POST /start starts it.                                              *)
(***************************************************************************)
LatestTimeArgs == {DatetimeMax}

InitialMessages ==
    {[command |-> "set_time", time |-> isoformat(t)] : t \in LatestTimeArgs}

NextInitial ==
    \/ Tick
    \/ \E c \in Conns : connect(c)
    \/ \E c \in Conns, ok \in BOOLEAN : _send_to_websocket(c, ok)
    \/ \E c \in Conns, message \in InitialMessages :
          _handle_time_command(message, c)
    \/ \E c \in Conns : websocket_disconnect(c)
    \/ endpoint_start
    \/ \E message \in BroadcastMessages : broadcast_begin(message)
    \/ \E ok \in BOOLEAN : broadcast_send(ok)

SpecInitial == Init /\ [][NextInitial]_vars

(***************************************************************************)
(* SpecErrors, the error specification: one streaming client that sends    *)
(* well-formed commands, malformed ones, a timestamp one day before        *)
(* datetime.max, and texts that are no JSON object.                        *)
(***************************************************************************)
LateTimeArgs == {DatetimeMax - SecondsPerDay}

ErrorMessages ==
    {[command |-> k] : k \in {"start", "stop", "get_state"}}
    \cup {[command |-> "set_speed", speed |-> MaxSpeed],
          [command |-> "set_speed", speed_str |-> "fast"]}
    \cup {[command |-> "set_time", time |-> isoformat(t)] :
             t \in TimeArgs \cup LateTimeArgs}
    \cup {[command |-> "set_time", time |-> [text |-> "yesterday"]],
          [command |-> "set_time", time |-> EmptyString],
          [command |-> "set_time"]}
    \cup {[command |-> "fast_forward"],
          [command |-> "fast_forward", hours_str |-> "two"]}
    \cup {[command |-> u] : u \in UnknownCommands}

NextErrors ==
    \/ Tick
    \/ \E c \in ClockConns : connect(c)
    \/ \E c \in ClockConns, ok \in BOOLEAN : _send_to_websocket(c, ok)
    \/ \E c \in ClockConns, message \in ErrorMessages :
          _handle_time_command(message, c)
    \/ \E c \in ClockConns, data \in BadTexts :
          websocket_time_endpoint(data, c)
    \/ \E c \in ClockConns : websocket_disconnect(c)

SpecErrors == Init /\ [][NextErrors]_vars

\* Within the bounds the clock's own sums stay in datetime's range.
InDatetimeRange ==
    /\ time_manager.base_time \in DatetimeMin..DatetimeMax
    /\ get_current_time(time_manager, MaxReal + 2 * MaxCallCost + 1)
           + timedelta_hours(1) \in DatetimeMin..DatetimeMax

TypeOK ==
    /\ time_manager.is_time_running \in BOOLEAN
    /\ time_manager.time_speed \in Int
    /\ now \in 0..MaxReal
    /\ pc \in [Conns -> {"new", "send", "recv", "lost", "done", "crashed"}]
    /\ \A c \in Conns : Len(outbox[c]) <= MaxOutbox + 1

(***************************************************************************)
(* Vocabulary of the properties.                                           *)
(***************************************************************************)
\* current_time() as the design states it (4.2), from the four fields of a
\* clock state and a real instant.
CurrentTime(clk, t) ==
    IF clk.is_time_running
    THEN clk.base_time + clk.time_speed * (t - clk.base_real_time)
    ELSE clk.base_time

\* The ClockState of a manager.
ClockOf(m) ==
    <<m.is_time_running, m.time_speed, m.base_time, m.base_real_time>>

KnownCommands ==
    {"start", "stop", "set_speed", "set_time", "fast_forward",
     "get_state", "request_update"}

\* The step just taken ran clock operation k, as a streaming command or as
\* a one-shot HTTP operation.
Did(k) ==
    /\ last.op \in {"command", "POST /start", "POST /stop", "POST /speed"}
    /\ command_of(last.message) = k

\* The step just taken handled streaming command k.
Handled(k) == last.op = "command" /\ command_of(last.message) = k

\* The step just taken built a message that reports a current time.
ReportsTime == "current_time" \in DOMAIN last.reply

(***************************************************************************)
(* C1.  Every current time the program reports (in a snapshot, a command   *)
(* reply or the HTTP state query) is time_anchor when the clock is not     *)
(* running and time_anchor + speed * (now - real_anchor) when it is, for   *)
(* the clock state and the real instant of the reading: a function of the  *)
(* four fields and `now` alone.                                            *)
(***************************************************************************)
C1_CurrentTimeFormula ==
    ReportsTime =>
        last.reply.current_time =
            [iso |-> IF time_manager.is_time_running
                     THEN time_manager.base_time
                          + time_manager.time_speed
                            * (now - time_manager.base_real_time)
                     ELSE time_manager.base_time]

\* A time is reported from a running clock at speed 2 after real time passed
\* since the anchor.
C1_Witness ==
    /\ ReportsTime
    /\ time_manager.is_time_running
    /\ time_manager.time_speed > 1
    /\ now > time_manager.base_real_time
    /\ last.reply.current_time.iso > time_manager.base_time

(***************************************************************************)
(* C2.  set_speed causes no retroactive jump: the current time at the      *)
(* instant set_speed finishes (tB) equals the current time at the instant  *)
(* it began (tA), from any clock state and for any old and new speed.      *)
(***************************************************************************)
C2_SetSpeedNoJump ==
    Did("set_speed") =>
        CurrentTime(time_manager, last.tB) = CurrentTime(last.self, last.tA)

\* set_speed changed the speed of a running clock on which simulated time
\* had elapsed since the anchor.
C2_Witness ==
    /\ Did("set_speed")
    /\ last.self.is_time_running
    /\ last.self.time_speed > 0
    /\ last.tA > last.self.base_real_time
    /\ time_manager.time_speed # last.self.time_speed
    /\ time_manager.time_speed > 0

(***************************************************************************)
(* C3.  start() and stop() cause no time jump: starting a stopped clock or *)
(* stopping a running clock leaves the current time at the instant of the  *)
(* call unchanged, however much real time passed before the call.          *)
(***************************************************************************)
C3_StartStopNoJump ==
    /\ (Did("start") /\ ~last.self.is_time_running) =>
            /\ time_manager.is_time_running
            /\ CurrentTime(time_manager, last.tB)
                 = CurrentTime(last.self, last.tB)
    /\ (Did("stop") /\ last.self.is_time_running) =>
            /\ ~time_manager.is_time_running
            /\ CurrentTime(time_manager, last.tA)
                 = CurrentTime(last.self, last.tA)

\* A clock that had been stopped for a while at a positive speed was started.
C3_Witness ==
    /\ Did("start")
    /\ ~last.self.is_time_running
    /\ last.self.time_speed > 0
    /\ last.tB > last.self.base_real_time
    /\ time_manager.is_time_running

(***************************************************************************)
(* C4.  start() and stop() are idempotent: stop() on a stopped clock and   *)
(* start() on a running clock leave running, speed, time_anchor and        *)
(* real_anchor unchanged, whatever real time has passed.                   *)
(***************************************************************************)
C4_StartStopIdempotent ==
    /\ (Did("stop") /\ ~last.self.is_time_running) =>
            ClockOf(time_manager) = ClockOf(last.self)
    /\ (Did("start") /\ last.self.is_time_running) =>
            ClockOf(time_manager) = ClockOf(last.self)

\* start() was called on a clock already running at a positive speed, real
\* time after its anchor.
C4_Witness ==
    /\ Did("start")
    /\ last.self.is_time_running
    /\ last.self.time_speed > 0
    /\ last.tA > last.self.base_real_time

(***************************************************************************)
(* C5.  No drift while stopped: a step that finds the clock stopped and    *)
(* leaves it stopped, and is neither set_time nor fast_forward, keeps the  *)
(* current time, and a time it reports is that same value (real time       *)
(* passing, set_speed, reads, connects, a repeated stop).                  *)
(***************************************************************************)
C5_NoDriftWhileStopped ==
    ( /\ ~last.self.is_time_running
      /\ ~time_manager.is_time_running
      /\ ~Did("set_time")
      /\ ~Did("fast_forward") ) =>
        /\ CurrentTime(time_manager, now) = CurrentTime(last.self, last.tA)
        /\ ReportsTime =>
              last.reply.current_time.iso = CurrentTime(last.self, last.tA)

\* set_speed ran on a clock stopped at a positive speed, real time after its
\* anchor.
C5_Witness ==
    /\ Did("set_speed")
    /\ ~last.self.is_time_running
    /\ ~time_manager.is_time_running
    /\ last.self.time_speed > 0
    /\ time_manager.time_speed > 0
    /\ last.tA > last.self.base_real_time

(***************************************************************************)
(* C6.  The clock speed is never negative.                                 *)
(***************************************************************************)
C6_SpeedNonNegative == time_manager.time_speed >= 0

\* set_speed was asked for a negative speed.
C6_Witness ==
    /\ Did("set_speed")
    /\ dict_get(last.message, "speed", 1) < 0
    /\ time_manager.time_speed = 0

(***************************************************************************)
(* C7.  set_time(t) sets time_anchor = t and real_anchor = now and changes *)
(* neither running nor speed; at that instant the current time is t,       *)
(* running or stopped.                                                     *)
(***************************************************************************)
C7_SetTime ==
    (Handled("set_time") /\ "time" \in DOMAIN last.message) =>
        /\ time_manager.base_time = last.message.time.iso
        /\ time_manager.base_real_time = last.tB
        /\ time_manager.is_time_running = last.self.is_time_running
        /\ time_manager.time_speed = last.self.time_speed
        /\ CurrentTime(time_manager, last.tB) = last.message.time.iso

\* set_time ran on a clock running at a positive speed, real time after its
\* anchor.
C7_Witness ==
    /\ Handled("set_time")
    /\ "time" \in DOMAIN last.message
    /\ last.self.is_time_running
    /\ last.self.time_speed > 0
    /\ last.tB > last.self.base_real_time
    /\ last.self.base_time # last.message.time.iso

(***************************************************************************)
(* C8.  fast_forward(hours) leaves the clock state that                    *)
(* set_time(current_time() + hours) leaves: time_anchor is the current     *)
(* time before the call plus `hours` hours, real_anchor is now, running    *)
(* and speed are unchanged, so the current time right after the call is    *)
(* the current time right before it plus `hours` hours.                    *)
(***************************************************************************)
C8_FastForward ==
    Handled("fast_forward") =>
        LET hours == dict_get(last.message, "hours", 1)
            target == CurrentTime(last.self, last.tA) + hours * 3600
        IN  /\ time_manager = [last.self EXCEPT !.base_time = target,
                                                !.base_real_time = last.tB]
            /\ CurrentTime(time_manager, last.tB) = target

\* fast_forward ran on a clock running at a positive speed, real time after
\* its anchor.
C8_Witness ==
    /\ Handled("fast_forward")
    /\ last.self.is_time_running
    /\ last.self.time_speed > 0
    /\ last.tA > last.self.base_real_time
    /\ time_manager.base_time # last.self.base_time + 3600

(***************************************************************************)
(* C9.  Read operations never mutate the clock: get_state, request_update, *)
(* an unrecognized command, the HTTP state query and the initial snapshot  *)
(* of a new connection leave running, speed, time_anchor and real_anchor   *)
(* unchanged.                                                              *)
(***************************************************************************)
IsRead ==
    \/ last.op \in {"connect", "GET /current"}
    \/ Handled("get_state")
    \/ Handled("request_update")
    \/ (last.op = "command" /\ command_of(last.message) \notin KnownCommands)

C9_ReadsDoNotMutate == IsRead => ClockOf(time_manager) = ClockOf(last.self)

\* get_state was answered from a running clock on which simulated time had
\* elapsed since the anchor.
C9_Witness ==
    /\ Handled("get_state")
    /\ time_manager.is_time_running
    /\ time_manager.time_speed > 0
    /\ now > time_manager.base_real_time

(***************************************************************************)
(* C10.  A message whose `command` is not one of the seven known commands  *)
(* makes the handler build exactly one message, of type `error` with the   *)
(* text "Unknown command: <value>", for the originating connection alone,  *)
(* leaving the clock and the tracked connections as they were; when that   *)
(* message is delivered it is appended to the originating connection's     *)
(* deliveries and to no other's, the connection stays tracked and its      *)
(* coroutine waits for the next inbound message.                           *)
(***************************************************************************)
C10_Step ==
    LET c == last'.conn
    IN  /\ (last'.op = "command"
            /\ command_of(last'.message) \notin KnownCommands) =>
              LET err == [type |-> "error",
                          message |-> "Unknown command: "
                                        \o command_of(last'.message)]
              IN  /\ last'.reply = err
                  /\ pending' = [pending EXCEPT ![c] = err]
                  /\ pc' = [pc EXCEPT ![c] = "send"]
                  /\ outbox' = outbox
                  /\ time_manager' = time_manager
        /\ (last'.op = "sent" /\ last'.reply.type = "error") =>
              /\ last'.reply = pending[c]
              /\ outbox' = [outbox EXCEPT ![c] = Append(@, pending[c])]
              /\ pending' = [pending EXCEPT ![c] = NoMsg]
              /\ pc' = [pc EXCEPT ![c] = "recv"]
              /\ time_manager' = time_manager

\* C10: every step that handles an unrecognized command, and every step
\* that delivers its error, is as C10_Step states.
C10_UnknownCommand == [][C10_Step]_vars

\* The error for `launch` was delivered to one of two tracked connections,
\* after its initial snapshot, while the clock runs; the other connection
\* holds its initial snapshot alone.
C10_Witness ==
    \E c, d \in Conns :
        /\ c # d
        /\ last.op = "sent"
        /\ last.conn = c
        /\ last.reply = [type |-> "error",
                         message |-> "Unknown command: launch"]
        /\ outbox[c] = <<[type |-> "initial_state"], last.reply>>
        /\ outbox[d] = <<[type |-> "initial_state"]>>
        /\ list_contains(time_manager.active_connections, c)
        /\ list_contains(time_manager.active_connections, d)
        /\ pc[c] = "recv"
        /\ time_manager.is_time_running

(***************************************************************************)
(* C11.  A failed command changes nothing: whenever the message built for  *)
(* an inbound command or text is of type `error`, the clock state          *)
(* (running, speed, time anchor, real anchor) after the handler's step     *)
(* equals the clock state before it.                                       *)
(*                                                                         *)
(* The program violates it: set_time stores the new anchors (line 326)     *)
(* before calculate_predicted_trajectory (line 328) adds its look-ahead to *)
(* the new time at line 88, outside the try of the loop; for a timestamp   *)
(* within the look-ahead of datetime.max that sum raises OverflowError,    *)
(* which the except block of the handler turns into an `error` message.    *)
(* start and fast_forward do the same once the clock is that late.         *)
(***************************************************************************)
\* The step just taken took a text from a connection and answered `error`.
AnsweredError ==
    /\ last.op \in {"command", "text"}
    /\ last.reply.type = "error"

\* C11: an inbound command answered with `error` leaves the clock state as
\* it was before the command.
C11_FailedCommandChangesNothing ==
    AnsweredError => ClockOf(time_manager) = ClockOf(last.self)

\* set_time to a timestamp one day before datetime.max was answered with
\* an error naming set_time, and the clock is anchored at that timestamp.
C11_Witness ==
    /\ Handled("set_time")
    /\ last.reply = error_reply("set_time", "OverflowError")
    /\ time_manager.base_time = DatetimeMax - SecondsPerDay
    /\ time_manager.base_time # last.self.base_time

(***************************************************************************)
(* C12.  A set_time message without a (non-empty) `time` is answered with  *)
(* an `error` message that names set_time, and leaves the clock state      *)
(* unchanged; and every inbound command is answered with exactly one       *)
(* message to the connection it came from.                                 *)
(*                                                                         *)
(* The program violates it: the set_time branch is `if time_str:` without  *)
(* an else (lines 323-337), so for a missing or empty `time` the handler   *)
(* returns without sending anything.                                       *)
(***************************************************************************)
\* The step just taken handled a set_time whose `time` is missing or empty.
SetTimeWithoutTime ==
    /\ Handled("set_time")
    /\ ("time" \notin DOMAIN last.message \/ last.message.time = EmptyString)

\* C12: set_time without a timestamp is answered with an error naming
\* set_time and changes no clock state, and every inbound command leaves
\* exactly one message to be sent to its connection.
C12_SetTimeRequiresTimestamp ==
    /\ SetTimeWithoutTime =>
          /\ last.reply.type = "error"
          /\ \E e \in {"ValueError", "TypeError", "KeyError"} :
                last.reply = error_reply("set_time", e)
          /\ ClockOf(time_manager) = ClockOf(last.self)
    /\ last.op = "command" =>
          /\ last.reply # NoMsg
          /\ pending[last.conn] = envelope(last.reply)
          /\ pc[last.conn] = "send"

\* A set_time without `time` was handled: nothing is to be sent, the
\* coroutine is back at receive_text, and the clock is as before.
C12_Witness ==
    /\ Handled("set_time")
    /\ "time" \notin DOMAIN last.message
    /\ last.reply = NoMsg
    /\ pending[last.conn] = NoMsg
    /\ pc[last.conn] = "recv"
    /\ ClockOf(time_manager) = ClockOf(last.self)

(***************************************************************************)
(* C13.  No inbound text ends a connection's coroutine: after a text that  *)
(* is no JSON, JSON that is no object, an unknown command, a command with  *)
(* malformed or missing fields or a command whose handling raises, the     *)
(* coroutine sends what it built (if anything) and waits for the next      *)
(* text; it ends only on a receive-side disconnect, and a connection       *)
(* leaves the tracked list only when a send to it failed or its receive    *)
(* reported the disconnect.                                                *)
(***************************************************************************)
C13_Step ==
    \A c \in Conns :
        /\ (last'.op \in {"command", "text"} /\ last'.conn = c) =>
              /\ pc'[c] = IF last'.reply = NoMsg THEN "recv" ELSE "send"
              /\ time_manager'.active_connections
                    = time_manager.active_connections
        /\ (last'.op = "sent" /\ last'.conn = c) => pc'[c] = "recv"
        /\ (pc[c] # "done" /\ pc'[c] = "done") =>
              /\ last'.op = "disconnect"
              /\ last'.conn = c
        /\ (/\ list_contains(time_manager.active_connections, c)
            /\ ~list_contains(time_manager'.active_connections, c)) =>
              /\ last'.op \in {"send_failed", "disconnect"}
              /\ last'.conn = c

\* C13: every step is as C13_Step states.
C13_HandlerSurvives == [][C13_Step]_vars

\* The error for a JSON text that is no object was delivered after the
\* initial snapshot; the connection is tracked and its coroutine waits for
\* the next text.
C13_Witness ==
    \E c \in Conns :
        /\ last.op = "sent"
        /\ last.conn = c
        /\ outbox[c] = <<[type |-> "initial_state"],
                         [type |-> "error",
                          message |-> str("AttributeError")]>>
        /\ pc[c] = "recv"
        /\ list_contains(time_manager.active_connections, c)

(***************************************************************************)
(* C14.  Broadcast isolation: whichever of the tracked connections fail on *)
(* send, one broadcast calls send_text once on every connection that was   *)
(* tracked when it began, in order, delivers the message to every one      *)
(* whose send did not fail, and when it returns the tracked list is the    *)
(* one it began with less exactly the failing connections; a later         *)
(* broadcast does not send to a connection an earlier one removed.         *)
(* This is the broadcast whose sends no other coroutine's change of the    *)
(* list falls between (bc.undisturbed); C15 is about the others.           *)
(***************************************************************************)
\* The list `began` without the connections whose send failed.
Survivors(b) ==
    SelectSeq(b.began, LAMBDA c : c \notin Range(b.disconnected))

\* The step just taken is the one in which the broadcast returned.
BroadcastJustReturned ==
    /\ bc.pc = "returned"
    /\ last.op \in {"broadcast", "broadcast_sent", "broadcast_send_failed"}

RECURSIVE Count(_, _)
Count(l, x) ==
    IF l = <<>> THEN 0
    ELSE (IF Head(l) = x THEN 1 ELSE 0) + Count(Tail(l), x)

\* C15: when a broadcast has just returned, every connection tracked at
\* its begin and at its return was attempted exactly once.
C15_BroadcastAttemptsEveryTracked ==
    BroadcastJustReturned =>
        \A c \in Conns :
            (/\ list_contains(bc.began, c)
             /\ list_contains(time_manager.active_connections, c)) =>
                Count(bc.attempted, c) = 1

\* A broadcast that began with connections 1 and 2 has just returned:
\* connection 1 left the list while the broadcast was sending to it, and
\* connection 2, tracked throughout, was never sent to.
C15_Witness ==
    /\ BroadcastJustReturned
    /\ bc.began = <<1, 2>>
    /\ bc.attempted = <<1>>
    /\ bc.disconnected = <<>>
    /\ time_manager.active_connections = <<2>>
    /\ outbox[2] = <<[type |-> "initial_state"]>>

(***************************************************************************)
(* C16.  A transport failure affects only the failing connection: when a   *)
(* send to connection C fails (in _send_to_websocket or in broadcast) or   *)
(* C's receive raises WebSocketDisconnect, C leaves the tracked list, the  *)
(* other connections stay, in their order, and the clock state is          *)
(* unchanged; if C was not in the list, the list is unchanged.  A          *)
(* broadcast removes the connections whose send failed when its loop is    *)
(* over, and until then leaves the list alone.                             *)
(***************************************************************************)
\* The list l without connection c.
Without(l, c) == SelectSeq(l, LAMBDA x : x # c)

\* C16: a failed send or a disconnect removes its connection and nothing
\* else, and does not touch the clock.
C16_TransportFailureIsLocal ==
    /\ last.op \in {"send_failed", "disconnect"} =>
          /\ time_manager.active_connections
                = Without(last.self.active_connections, last.conn)
          /\ ~list_contains(last.self.active_connections, last.conn) =>
                time_manager = last.self
          /\ ClockOf(time_manager) = ClockOf(last.self)
    /\ BroadcastJustReturned =>
          /\ time_manager.active_connections
                = SelectSeq(last.self.active_connections,
                            LAMBDA x : x \notin Range(bc.disconnected))
          /\ ClockOf(time_manager) = ClockOf(last.self)
    /\ (last.op = "broadcast_send_failed" /\ bc.pc = "send") =>
          /\ list_contains(bc.disconnected, last.conn)
          /\ time_manager = last.self

\* The send of connection 2's initial snapshot has just failed while
\* connection 1 was tracked and the clock was running: 1 alone is tracked,
\* the clock runs on.
C16_Witness ==
    /\ last.op = "send_failed"
    /\ last.conn = 2
    /\ last.self.active_connections = <<1, 2>>
    /\ time_manager.active_connections = <<1>>
    /\ time_manager.is_time_running

(***************************************************************************)
(* C17.  Clock mutations serialize: however the coroutines of several      *)
(* connections and the one-shot HTTP operations interleave, every step     *)
(* leaves the clock state either unchanged or exactly as one whole         *)
(* operation of the design (capture the current time, update the anchors,  *)
(* flip the flag or the speed) leaves it when applied to the clock state   *)
(* right before that step; so every reachable clock state is the result    *)
(* of applying the operations one at a time, in the order of their steps,  *)
(* and no operation works on a state older than the one it overwrites.     *)
(***************************************************************************)
\* The clock operations as the design states them (4.2), on the four
\* fields, with the real instants of the capture (tA) and the anchoring (tB).
SerialStart(clk, tB) ==
    IF clk.is_time_running THEN clk
    ELSE [clk EXCEPT !.base_time = CurrentTime(clk, tB),
                     !.base_real_time = tB,
                     !.is_time_running = TRUE]

SerialStop(clk, tA) ==
    IF clk.is_time_running
    THEN [clk EXCEPT !.base_time = CurrentTime(clk, tA),
                     !.is_time_running = FALSE]
    ELSE clk

SerialSetSpeed(clk, speed, tA, tB) ==
    [clk EXCEPT !.base_time = CurrentTime(clk, tA),
                !.base_real_time = tB,
                !.time_speed = IF speed < 0 THEN 0 ELSE speed]

SerialSetTime(clk, t, tB) ==
    [clk EXCEPT !.base_time = t, !.base_real_time = tB]

SerialFastForward(clk, hours, tA, tB) ==
    SerialSetTime(clk, CurrentTime(clk, tA) + hours * SecondsPerHour, tB)

\* The operation of the step just taken, applied to the manager it found.
SerialStep ==
    CASE Did("start") -> SerialStart(last.self, last.tB)
      [] Did("stop") -> SerialStop(last.self, last.tA)
      [] Did("set_speed") ->
            SerialSetSpeed(last.self, dict_get(last.message, "speed", 1),
                           last.tA, last.tB)
      [] Did("set_time") ->
            SerialSetTime(last.self, last.message.time.iso, last.tB)
      [] Did("fast_forward") ->
            SerialFastForward(last.self, dict_get(last.message, "hours", 1),
                              last.tA, last.tB)
      [] OTHER -> last.self

\* C17: the clock state after every step is the one its single operation
\* leaves when applied to the clock state before the step.
C17_ClockMutationsSerialize ==
    ClockOf(time_manager) = ClockOf(SerialStep)

\* Connection 2 fast-forwarded a running clock right after connection 1
\* had set its time, each between the other's receive and send.
C17_Witness ==
    /\ Handled("fast_forward")
    /\ last.conn = 2
    /\ pc[1] = "send"
    /\ pending[1].type = "command_success"
    /\ pending[1].command = "set_time"
    /\ last.self.is_time_running
    /\ last.self.base_time \in TimeArgs
    /\ last.tA > last.self.base_real_time

(***************************************************************************)
(* C18.  Snapshots are consistent: the current_time, is_running and        *)
(* time_speed reported together in one initial_state, time_state,          *)
(* time_update or HTTP current-state reply all come from one clock state,  *)
(* the one the manager has when the reply is built, read at one real       *)
(* instant; no mutation by another coroutine falls between the readings.   *)
(***************************************************************************)
\* The step just taken built a snapshot of the clock.
BuiltSnapshot ==
    \/ last.op = "GET /current"
    \/ /\ last.op \in {"connect", "command"}
       /\ last.reply.type \in {"initial_state", "time_state", "time_update"}

\* C18: the three clock values of a snapshot are those of the single clock
\* state of the manager at the instant the snapshot is built.
C18_SnapshotsConsistent ==
    BuiltSnapshot =>
        /\ ClockOf(time_manager) = ClockOf(last.self)
        /\ last.reply.is_running = time_manager.is_time_running
        /\ last.reply.time_speed = time_manager.time_speed
        /\ last.reply.current_time.iso = CurrentTime(time_manager, now)

\* get_state was answered from a clock running at speed MaxSpeed, real time
\* after its anchor, the state a one-shot HTTP operation had just left.
C18_Witness ==
    /\ Handled("get_state")
    /\ last.reply.type = "time_state"
    /\ last.reply.is_running
    /\ last.reply.time_speed = MaxSpeed
    /\ last.reply.current_time.iso > time_manager.base_time
    /\ pc[last.conn] = "send"

(***************************************************************************)
(* C19.  calculate_position never fails the caller: for every record of    *)
(* elements and every timestamp it returns a position and raises nothing;  *)
(* when an element is missing or cannot be converted, the period is zero,  *)
(* the eccentricity exceeds 1, or the eccentricity is 1 at the phase where *)
(* the solver divides by zero, the position is exactly the fallback        *)
(* x = y = z = 0, distance_from_sun = 1; otherwise it is a computed        *)
(* position.                                                               *)
(***************************************************************************)
ElementKeys ==
    {"semi_major_axis", "eccentricity", "inclination",
     "ascending_node_longitude", "perihelion_argument", "orbital_period"}

\* float() accepts the element.
Converts(value) ==
    \/ value.kind = "float"
    \/ value.kind = "str" /\ value.parses

\* The computation fails inside: an element is missing or not convertible,
\* or the arithmetic leaves its domain.
InternalFailure(elements, target_time) ==
    \/ \E k \in ElementKeys : k \notin DOMAIN elements
    \/ \E k \in ElementKeys \cap DOMAIN elements : ~Converts(elements[k])
    \/ /\ ElementKeys \subseteq DOMAIN elements
       /\ \/ elements.orbital_period.v = 0
          \/ elements.eccentricity.v > EccentricityOne
          \/ /\ elements.eccentricity.v = EccentricityOne
             /\ elements.orbital_period.v > 0
             /\ (target_time - epoch_jd)
                   % (elements.orbital_period.v * SecondsPerDay) = 0

\* C19: calculate_position returns, and returns the fallback exactly when
\* the computation failed inside.
C19_PositionNeverFails ==
    eng.method = "calculate_position" =>
        /\ eng.result.raised = None
        /\ IF InternalFailure(eng.orbital_data, eng.target_time)
           THEN eng.result.value = FallbackPosition
           ELSE /\ eng.result.value # FallbackPosition
                /\ "computed_from" \in DOMAIN eng.result.value

\* calculate_position was called on elements complete and convertible but
\* with eccentricity 1.5, and returned the fallback.
C19_Witness ==
    /\ eng.method = "calculate_position"
    /\ ElementKeys \subseteq DOMAIN eng.orbital_data
    /\ \A k \in ElementKeys : Converts(eng.orbital_data[k])
    /\ eng.orbital_data.eccentricity.v > EccentricityOne
    /\ eng.orbital_data.orbital_period.v > 0
    /\ eng.result = Ok(FallbackPosition)

(***************************************************************************)
(* C20.  calculate_predicted_trajectory(start_time, steps, step_days)      *)
(* returns a sequence of at most `steps` points in strictly increasing     *)
(* `step` order, point k having the time start_time + k * step_days days;  *)
(* a failure at a step omits that point only, and the call never raises.   *)
(*                                                                         *)
(* The program violates it: the time of a point is computed at line 88,    *)
(* before the try of the loop body, so when start_time + k * step_days     *)
(* days exceeds datetime.max the OverflowError leaves the method and the   *)
(* points of the earlier steps are lost with it.                           *)
(***************************************************************************)
\* C20: the call returns a sequence of at most `steps` points, ordered by
\* step, each at its step's time.
C20_TrajectoryNeverAborts ==
    eng.method = "calculate_predicted_trajectory" =>
        /\ eng.result.raised = None
        /\ Len(eng.result.value) <= eng.steps
        /\ \A j \in 1..Len(eng.result.value) :
              LET point == eng.result.value[j]
              IN  /\ point.step \in 0..(eng.steps - 1)
                  /\ point.time
                        = isoformat(eng.start_time
                                    + point.step * eng.step_days
                                      * SecondsPerDay)
                  /\ j > 1 => eng.result.value[j - 1].step < point.step

\* The call for DefaultSteps points, DefaultStepDays days apart, from one
\* day before datetime.max raised OverflowError.
C20_Witness ==
    /\ eng.method = "calculate_predicted_trajectory"
    /\ eng.start_time = DatetimeMax - SecondsPerDay
    /\ eng.steps = DefaultSteps
    /\ eng.step_days = DefaultStepDays
    /\ eng.result = Raise("OverflowError")

(***************************************************************************)
(* C21.  The command_success reply to set_speed reports the resulting      *)
(* state: its `speed` is the clock's speed after the command (0 when a     *)
(* negative speed was requested) and its current_time is the clock's       *)
(* current time after the command.                                         *)
(* The program violates the first half: set_time_speed clamps its own      *)
(* parameter, and the handler puts its local `speed`, the requested        *)
(* value, in the reply.                                                    *)
(***************************************************************************)
\* The step just taken answered a set_speed command with command_success.
SetSpeedSucceeded ==
    /\ Handled("set_speed")
    /\ last.reply # NoMsg
    /\ last.reply.type = "command_success"

\* C21: the reply to set_speed carries the speed and the current time the
\* clock has once the command is done.
C21_SetSpeedReplyReportsState ==
    SetSpeedSucceeded =>
        /\ last.reply.speed = time_manager.time_speed
        /\ last.reply.current_time
              = isoformat(get_current_time(time_manager, now))

\* A negative speed was requested of a running clock: the clock was
\* clamped to 0 and the reply was built.
C21_Witness ==
    /\ SetSpeedSucceeded
    /\ last.self.is_time_running
    /\ "speed" \in DOMAIN last.message
    /\ last.message.speed < 0
    /\ time_manager.time_speed = 0

\* The second half of C21 alone: the reply's current_time is the clock's
\* current time after the command.
SetSpeedReplyReportsTime ==
    SetSpeedSucceeded =>
        last.reply.current_time
            = isoformat(get_current_time(time_manager, now))

(***************************************************************************)
(* C22.  The Kepler solver always terminates: for every M and e it makes   *)
(* at most 50 Newton-Raphson iterations, stops as soon as the absolute     *)
(* step is below the tolerance, and otherwise returns the 50th iterate     *)
(* rather than signalling an error.                                        *)
(* The program violates the last part for e = 1.0 and M a multiple of      *)
(* 2 pi: the divisor 1 - e * cos(E) of the first step is zero and the      *)
(* ZeroDivisionError leaves _solve_kepler.                                 *)
(***************************************************************************)
\* A call of _solve_kepler is in progress or over.
InSolver == eng # NoCall /\ eng.method = "_solve_kepler"

\* The bounded loop: at most 50 iterations, a small step ends it at once,
\* and it is left by the break or after the 50th iteration.
BoundedIterations ==
    InSolver =>
        /\ eng.iterations <= MaxIterations
        /\ eng.pc = "loop" => /\ eng.iterations < MaxIterations
                              /\ abs(eng.delta_E) >= Tolerance
                                    \/ eng.iterations = 0
        /\ eng.pc = "returned" =>
              /\ eng.broke = (abs(eng.delta_E) < Tolerance)
              /\ eng.broke \/ eng.iterations = MaxIterations

\* C22: every call of the solver makes at most 50 iterations, stops at the
\* first step below the tolerance, and ends by returning an iterate, never
\* by raising.
C22_KeplerTerminates ==
    /\ BoundedIterations
    /\ InSolver => eng.pc # "raised"

\* The first step of the solver for a parabola at its perihelion divided by
\* zero.
C22_Witness ==
    /\ InSolver
    /\ eng.e = EccentricityOne
    /\ eng.M = 0
    /\ eng.iterations = 1
    /\ eng.pc = "raised"
    /\ eng.raised = "ZeroDivisionError"

\* The solver raises in no other case: for the inputs of SpecKepler the
\* divisor is zero only at e = 1.0 and M = 0, on the first step.
KeplerRaisesOnlyAtParabolicPerihelion ==
    (InSolver /\ eng.pc = "raised") =>
        /\ eng.e = EccentricityOne
        /\ eng.M = 0
        /\ eng.iterations = 1

\* Both ways of returning happen: a call that broke off early, and one
\* that returned the 50th iterate without converging.
KeplerExhausted ==
    InSolver /\ eng.pc = "returned" /\ ~eng.broke
        /\ eng.iterations = MaxIterations

KeplerBrokeEarly ==
    InSolver /\ eng.pc = "returned" /\ eng.broke /\ eng.iterations \in 2..10

\* Under FairSpecKepler every call ends.
KeplerCallEnds ==
    (InSolver /\ eng.pc = "loop") ~> (InSolver /\ eng.pc # "loop")

(***************************************************************************)
(* C23.  Every accepted connection is sent initial_state exactly once (or  *)
(* one initialization error in its place), and it is the first message     *)
(* the connection is sent, under any interleaving of connect with          *)
(* broadcasts and other handlers.  A message is sent when send_text is     *)
(* called with it: that is the order of the frames on the transport.       *)
(* The program violates it: get_current_time() is called at line 173,      *)
(* after the append and before the try, so on a running clock past         *)
(* datetime.max connect raises OverflowError; the accepted connection is   *)
(* sent neither message, stays in active_connections, and the next         *)
(* broadcast is the first thing it is sent.                                *)
(***************************************************************************)
\* The exceptions the try block of connect can end with.
InitializationExceptions == {"OverflowError"}

\* The message connect sends: the initial snapshot or the error in its
\* place.
IsInitial(msg) ==
    \/ msg.type = "initial_state"
    \/ /\ msg.type = "error"
       /\ msg.message \in {"Initialization error: " \o str(e) :
                              e \in InitializationExceptions}

\* connect has handed c's initial message to send_text.
InitialWasSent(c) == pc[c] \in {"send", "recv", "lost", "done"}

\* In this step send_text is called for c with a message other than its
\* initial one: broadcast moves on to c, or c's handler built a reply.
SendStarts(c) ==
    \/ bc' # bc /\ bc'.pc = "send" /\ bc'.connection = c
    \/ pc[c] = "recv" /\ pc'[c] = "send"

\* The step that accepts c sends its initial message.
AcceptSendsInitial(c) ==
    (pc[c] = "new" /\ pc'[c] # "new") => IsInitial(pending'[c])

\* c is accepted once, and no later step sends it another initial message.
InitialOnce(c) ==
    pc[c] # "new" =>
        /\ pc'[c] # "new"
        /\ (IsInitial(pending'[c]) => pending'[c] = pending[c])

\* Any other message is sent to c after its initial message.
InitialFirst(c) == SendStarts(c) => InitialWasSent(c)

\* C23: every accepted connection is sent its initial message, once, and
\* before any other message.
C23_InitialSnapshotFirst ==
    [][\A c \in Conns :
          AcceptSendsInitial(c) /\ InitialOnce(c) /\ InitialFirst(c)]_vars

\* The connection of a coroutine that connect's exception ended has been
\* delivered a broadcast as its first message.
C23_Witness ==
    \E c \in Conns :
        /\ pc[c] = "crashed"
        /\ c \in Range(time_manager.active_connections)
        /\ outbox[c] # <<>>
        /\ outbox[c][1] = envelope([type |-> "time_update"])

\* The claim holds of every connection whose connect did not raise.
InitialFirstUnlessConnectRaised ==
    [][\A c \in Conns :
          /\ pc'[c] # "crashed" => AcceptSendsInitial(c)
          /\ InitialOnce(c)
          /\ pc[c] # "crashed" => InitialFirst(c)]_vars

\* The interleaving the claim is about: broadcast's send to a connection
\* is in flight while the send of its initial message is.
InitialInFlightDuringBroadcast ==
    \E c \in Conns :
        /\ pc[c] = "send"
        /\ IsInitial(pending[c])
        /\ bc.pc = "send"
        /\ bc.connection = c

\* connect sent the error in place of the snapshot.
InitializationErrorSent ==
    \E c \in Conns :
        /\ outbox[c] # <<>>
        /\ outbox[c][1].type = "error"
        /\ IsInitial(outbox[c][1])

=============================================================================
